---- MODULE Spec2Model ----
(***************************************************************************)
(* Model of transpose-future (src/src/lib.rs): the TransposeFuture trait   *)
(* with its two implementations, Option<F> -> TransposedOption<F> and      *)
(* Result<F, T> -> TransposedResult<F, T>, and the Future::poll of both    *)
(* adapters.  One adapter instance is built from an input drawn in Init    *)
(* and then polled by an external driver; the polls are recorded in hist.  *)
(***************************************************************************)
EXTENDS Integers, Sequences, FiniteSets, TLC

\* ---------------------------------------------------------------- bounds
\* The largest number of Pending results a wrapped computation gives.
MaxDelay == 2
\* The largest number of polls the driver issues to one adapter.
MaxPolls == 4

\* ---------------------------------------------------------------- values
\* Outputs of the wrapped computation (F::Output).  The second one is a
\* failure value of the inner computation itself.
TValues == {[isErr |-> FALSE, n |-> 5], [isErr |-> TRUE, n |-> 7]}
NoT == [isErr |-> FALSE, n |-> 0]
\* Error values of the Result (the type parameter T: Unpin of line 48).
EValues == {"boom", "oops"}
NoE == "-"
\* Wake contexts handed to poll (cx: &mut Context).
Contexts == {"cx1", "cx2"}
NoCx == "-"
\* What a completed wrapped computation does when it is polled again: the
\* Future contract leaves it open, so every outcome is possible.
AfterDone == {"Pending", "Ready", "Panic"}

\* A value convertible into a future (F: IntoFuture): it suspends `delay`
\* times and then yields `out`.
IntoFutures == [delay : 0..MaxDelay, out : TValues]
NoX == [delay |-> 0, out |-> NoT]

\* The arguments of transpose(): Option<F> and Result<F, T>.
OptionInputs ==
    {[kind |-> "Option", tag |-> "None", x |-> NoX, e |-> NoE]}
    \cup {[kind |-> "Option", tag |-> "Some", x |-> x, e |-> NoE] : x \in IntoFutures}
ResultInputs ==
    {[kind |-> "Result", tag |-> "Ok", x |-> x, e |-> NoE] : x \in IntoFutures}
    \cup {[kind |-> "Result", tag |-> "Err", x |-> NoX, e |-> e] : e \in EValues}
Inputs == OptionInputs \cup ResultInputs

\* ---------------------------------------------------------------- Poll<..>
\* std::task::Poll of the wrapped computation: Pending, Ready(t), or a panic
\* unwinding out of the call.
InnerPending == [st |-> "Pending", t |-> NoT]
InnerReady(t) == [st |-> "Ready", t |-> t]
InnerPanic == [st |-> "Panic", t |-> NoT]
NoInnerPoll == [st |-> "-", t |-> NoT]

\* Poll<Option<T>> / Poll<Result<T, E>> of an adapter; `by` says whose code
\* raised a panic.
Pending == [st |-> "Pending", wrap |-> "-", t |-> NoT, e |-> NoE, by |-> "-"]
ReadyNone == [st |-> "Ready", wrap |-> "None", t |-> NoT, e |-> NoE, by |-> "-"]
ReadyWrap(w, t) == [st |-> "Ready", wrap |-> w, t |-> t, e |-> NoE, by |-> "-"]
ReadyErr(e) == [st |-> "Ready", wrap |-> "Err", t |-> NoT, e |-> e, by |-> "-"]
PanicBy(who) == [st |-> "Panic", wrap |-> "-", t |-> NoT, e |-> NoE, by |-> who]

\* ---------------------------------------------------------------- futures
NoFut == [remaining |-> 0, out |-> NoT, done |-> FALSE, polls |-> 0, cx |-> NoCx]

\* IntoFuture::into_future: the canonical deferred form D of x, not yet polled.
\* (Variant: the conversion already runs the computation to completion.)
into_future_eager(x) ==
    [remaining |-> 0, out |-> x.out, done |-> TRUE, polls |-> 1, cx |-> NoCx]
into_future(x) ==
    [remaining |-> x.delay, out |-> x.out, done |-> FALSE, polls |-> 0, cx |-> NoCx]

\* Future::poll of the wrapped computation D with context cx.  `after` is the
\* outcome when D has already completed.
FuturePoll(d, cx, after) ==
    LET polled == [d EXCEPT !.polls = @ + 1, !.cx = cx] IN
    IF d.done
    THEN [fut |-> polled,
          ret |-> CASE after = "Pending" -> InnerPending
                    [] after = "Ready" -> InnerReady(d.out)
                    [] OTHER -> InnerPanic]
    ELSE IF d.remaining = 0
    THEN [fut |-> [polled EXCEPT !.done = TRUE], ret |-> InnerReady(d.out)]
    ELSE [fut |-> [polled EXCEPT !.remaining = @ - 1], ret |-> InnerPending]

\* Poll::map(Some) / Poll::map(Ok): relabels Ready(t); Pending and an unwinding
\* panic pass through.
\* (Variant: a failure value of the inner computation is moved into Err.)
PollMap_flatten(w, p) ==
    CASE p.st = "Pending" -> Pending
      [] p.st = "Ready" -> IF p.t.isErr THEN ReadyErr("boom") ELSE ReadyWrap(w, p.t)
      [] OTHER -> PanicBy("inner")
PollMap(w, p) ==
    CASE p.st = "Pending" -> Pending
      [] p.st = "Ready" -> ReadyWrap(w, p.t)
      [] OTHER -> PanicBy("inner")

\* ---------------------------------------------------------------- Option<T> slot
SlotNone == [tag |-> "None", e |-> NoE]
SlotSome(e) == [tag |-> "Some", e |-> e]
NoSlot == [tag |-> "-", e |-> NoE]

\* Option::take: hands out the content and leaves None.
\* (Variant: the content is read and left in place, as as_ref/clone would.)
OptionTake_peek(slot) == [taken |-> slot, left |-> slot]
OptionTake(slot) == [taken |-> slot, left |-> SlotNone]

\* ---------------------------------------------------------------- stored field .0
Unbuilt == [tag |-> "Unbuilt", f |-> NoFut, e |-> NoSlot]
Dropped == [tag |-> "Dropped", f |-> NoFut, e |-> NoSlot]
StoredNone == [tag |-> "None", f |-> NoFut, e |-> NoSlot]
StoredSome(d) == [tag |-> "Some", f |-> d, e |-> NoSlot]
StoredOk(d) == [tag |-> "Ok", f |-> d, e |-> NoSlot]
StoredErr(slot) == [tag |-> "Err", f |-> NoFut, e |-> slot]

\* <Option<F> as TransposeFuture>::transpose: self.map(IntoFuture::into_future).
\* conv counts the into_future calls made.
\* (Variant: None is replaced by a default computation.)
OptionTransposeFn_default(arg) ==
    IF arg.tag = "Some"
    THEN [stored |-> StoredSome(into_future(arg.x)), conv |-> 1]
    ELSE [stored |-> StoredSome(into_future(NoX)), conv |-> 1]
OptionTransposeFn(arg) ==
    IF arg.tag = "Some"
    THEN [stored |-> StoredSome(into_future(arg.x)), conv |-> 1]
    ELSE [stored |-> StoredNone, conv |-> 0]

\* <Result<F, T> as TransposeFuture>::transpose:
\* self.map(IntoFuture::into_future).map_err(Some).
\* (Variant: map_err drops the error, storing Err(None).)
ResultTransposeFn_lost(arg) ==
    IF arg.tag = "Ok"
    THEN [stored |-> StoredOk(into_future(arg.x)), conv |-> 1]
    ELSE [stored |-> StoredErr(SlotNone), conv |-> 0]
ResultTransposeFn(arg) ==
    IF arg.tag = "Ok"
    THEN [stored |-> StoredOk(into_future(arg.x)), conv |-> 1]
    ELSE [stored |-> StoredErr(SlotSome(arg.e)), conv |-> 0]

\* <TransposedOption<F> as Future>::poll.
\* (Variants: the None branch returns Pending; Ready(t) is returned as None.)
TransposedOptionPoll_suspend(self, cx, after) ==
    IF self.tag = "Some"
    THEN LET r == FuturePoll(self.f, cx, after) IN
         [self |-> [self EXCEPT !.f = r.fut], ret |-> PollMap("Some", r.ret),
          dpolled |-> 1, dret |-> r.ret, dcx |-> cx]
    ELSE [self |-> self, ret |-> Pending,
          dpolled |-> 0, dret |-> NoInnerPoll, dcx |-> NoCx]
TransposedOptionPoll_value(self, cx, after) ==
    IF self.tag = "Some"
    THEN LET r == FuturePoll(self.f, cx, after) IN
         [self |-> [self EXCEPT !.f = r.fut],
          ret |-> IF r.ret.st = "Ready" THEN ReadyNone ELSE PollMap("Some", r.ret),
          dpolled |-> 1, dret |-> r.ret, dcx |-> cx]
    ELSE [self |-> self, ret |-> ReadyNone,
          dpolled |-> 0, dret |-> NoInnerPoll, dcx |-> NoCx]
\* (Variants: D is polled again in the same call while it is Pending; the
\* adapter fuses itself to None once D has returned Ready.)
TransposedOptionPoll_repoll(self, cx, after) ==
    IF self.tag = "Some"
    THEN LET r1 == FuturePoll(self.f, cx, after)
             r == IF r1.ret.st = "Pending" THEN FuturePoll(r1.fut, cx, after) ELSE r1 IN
         [self |-> [self EXCEPT !.f = r.fut], ret |-> PollMap("Some", r.ret),
          dpolled |-> IF r1.ret.st = "Pending" THEN 2 ELSE 1, dret |-> r.ret, dcx |-> cx]
    ELSE [self |-> self, ret |-> ReadyNone,
          dpolled |-> 0, dret |-> NoInnerPoll, dcx |-> NoCx]
TransposedOptionPoll_fused(self, cx, after) ==
    IF self.tag = "Some"
    THEN LET r == FuturePoll(self.f, cx, after) IN
         [self |-> IF r.ret.st = "Ready" THEN [tag |-> "None", f |-> NoFut, e |-> NoSlot]
                   ELSE [self EXCEPT !.f = r.fut],
          ret |-> PollMap("Some", r.ret),
          dpolled |-> 1, dret |-> r.ret, dcx |-> cx]
    ELSE [self |-> self, ret |-> ReadyNone,
          dpolled |-> 0, dret |-> NoInnerPoll, dcx |-> NoCx]
TransposedOptionPoll(self, cx, after) ==
    IF self.tag = "Some"
    THEN LET r == FuturePoll(self.f, cx, after) IN
         [self |-> [self EXCEPT !.f = r.fut], ret |-> PollMap("Some", r.ret),
          dpolled |-> 1, dret |-> r.ret, dcx |-> cx]
    ELSE [self |-> self, ret |-> ReadyNone,
          dpolled |-> 0, dret |-> NoInnerPoll, dcx |-> NoCx]

\* <TransposedResult<F, T> as Future>::poll.  In the Err branch
\* e.get_mut().take().unwrap() empties the slot and panics when it was empty.
\* (Variants: an empty slot yields a default error; an empty slot yields
\* Pending; the slot is taken twice in one call.)
TransposedResultPoll_default(self, cx, after) ==
    IF self.tag = "Ok"
    THEN LET r == FuturePoll(self.f, cx, after) IN
         [self |-> [self EXCEPT !.f = r.fut], ret |-> PollMap("Ok", r.ret),
          dpolled |-> 1, dret |-> r.ret, dcx |-> cx]
    ELSE LET tk == OptionTake(self.e) IN
         [self |-> [self EXCEPT !.e = tk.left],
          ret |-> IF tk.taken.tag = "Some" THEN ReadyErr(tk.taken.e)
                  ELSE ReadyErr(NoE),
          dpolled |-> 0, dret |-> NoInnerPoll, dcx |-> NoCx]
TransposedResultPoll_pending(self, cx, after) ==
    IF self.tag = "Ok"
    THEN LET r == FuturePoll(self.f, cx, after) IN
         [self |-> [self EXCEPT !.f = r.fut], ret |-> PollMap("Ok", r.ret),
          dpolled |-> 1, dret |-> r.ret, dcx |-> cx]
    ELSE LET tk == OptionTake(self.e) IN
         [self |-> [self EXCEPT !.e = tk.left],
          ret |-> IF tk.taken.tag = "Some" THEN ReadyErr(tk.taken.e)
                  ELSE Pending,
          dpolled |-> 0, dret |-> NoInnerPoll, dcx |-> NoCx]
TransposedResultPoll_double_take(self, cx, after) ==
    IF self.tag = "Ok"
    THEN LET r == FuturePoll(self.f, cx, after) IN
         [self |-> [self EXCEPT !.f = r.fut], ret |-> PollMap("Ok", r.ret),
          dpolled |-> 1, dret |-> r.ret, dcx |-> cx]
    ELSE LET tk == OptionTake(OptionTake(self.e).left) IN
         [self |-> [self EXCEPT !.e = tk.left],
          ret |-> IF tk.taken.tag = "Some" THEN ReadyErr(tk.taken.e)
                  ELSE PanicBy("adapter"),
          dpolled |-> 0, dret |-> NoInnerPoll, dcx |-> NoCx]
\* (Variant: the Ok branch polls a copy of D, so D's progress is not kept.)
TransposedResultPoll_copy(self, cx, after) ==
    IF self.tag = "Ok"
    THEN LET r == FuturePoll(self.f, cx, after) IN
         [self |-> self, ret |-> PollMap("Ok", r.ret),
          dpolled |-> 1, dret |-> r.ret, dcx |-> cx]
    ELSE LET tk == OptionTake(self.e) IN
         [self |-> [self EXCEPT !.e = tk.left],
          ret |-> IF tk.taken.tag = "Some" THEN ReadyErr(tk.taken.e)
                  ELSE PanicBy("adapter"),
          dpolled |-> 0, dret |-> NoInnerPoll, dcx |-> NoCx]
TransposedResultPoll(self, cx, after) ==
    IF self.tag = "Ok"
    THEN LET r == FuturePoll(self.f, cx, after) IN
         [self |-> [self EXCEPT !.f = r.fut], ret |-> PollMap("Ok", r.ret),
          dpolled |-> 1, dret |-> r.ret, dcx |-> cx]
    ELSE LET tk == OptionTake(self.e) IN
         [self |-> [self EXCEPT !.e = tk.left],
          ret |-> IF tk.taken.tag = "Some" THEN ReadyErr(tk.taken.e)
                  ELSE PanicBy("adapter"),
          dpolled |-> 0, dret |-> NoInnerPoll, dcx |-> NoCx]

\* ---------------------------------------------------------------- state
VARIABLES
    input,        \* the argument of transpose()
    phase,        \* "input": not yet transposed; "built"; "dropped"
    inner,        \* the adapter's field .0
    hist,         \* the polls issued so far, one record each
    conversions,  \* into_future calls made
    released      \* what dropping the adapter released

vars == <<input, phase, inner, hist, conversions, released>>

Init ==
    /\ input \in Inputs
    /\ phase = "input"
    /\ inner = Unbuilt
    /\ hist = <<>>
    /\ conversions = 0
    /\ released = [f |-> 0, e |-> 0]

\* Some(..)/None .transpose()
OptionTranspose ==
    /\ phase = "input"
    /\ input.kind = "Option"
    /\ LET b == OptionTransposeFn(input) IN
       /\ inner' = b.stored
       /\ conversions' = conversions + b.conv
    /\ phase' = "built"
    /\ UNCHANGED <<input, hist, released>>

\* Ok(..)/Err(..) .transpose()
ResultTranspose ==
    /\ phase = "input"
    /\ input.kind = "Result"
    /\ LET b == ResultTransposeFn(input) IN
       /\ inner' = b.stored
       /\ conversions' = conversions + b.conv
    /\ phase' = "built"
    /\ UNCHANGED <<input, hist, released>>

Call(cx, r) ==
    [pre |-> inner, post |-> r.self, cx |-> cx, ret |-> r.ret,
     dpolled |-> r.dpolled, dret |-> r.dret, dcx |-> r.dcx]

\* The driver polls the TransposedOption once.
OptionPoll ==
    /\ phase = "built"
    /\ input.kind = "Option"
    /\ Len(hist) < MaxPolls
    /\ \E cx \in Contexts, after \in AfterDone :
         LET r == TransposedOptionPoll(inner, cx, after) IN
         /\ inner' = r.self
         /\ hist' = Append(hist, Call(cx, r))
    /\ UNCHANGED <<input, phase, conversions, released>>

\* The driver polls the TransposedResult once.
ResultPoll ==
    /\ phase = "built"
    /\ input.kind = "Result"
    /\ Len(hist) < MaxPolls
    /\ \E cx \in Contexts, after \in AfterDone :
         LET r == TransposedResultPoll(inner, cx, after) IN
         /\ inner' = r.self
         /\ hist' = Append(hist, Call(cx, r))
    /\ UNCHANGED <<input, phase, conversions, released>>

\* Drop glue of TransposedOption / TransposedResult: neither type implements
\* Drop or wraps its field, so dropping the adapter drops field .0: the
\* wrapped computation in Some/Ok, the error value in Err(Some(e)), nothing
\* in None and Err(None).
\* (Variant: the field is wrapped so that it is forgotten, not dropped.)
DropFn_forget(stored, rel) == rel
DropFn(stored, rel) ==
    [f |-> IF stored.tag \in {"Some", "Ok"} THEN rel.f + 1 ELSE rel.f,
     e |-> IF stored.tag = "Err" /\ stored.e.tag = "Some" THEN rel.e + 1 ELSE rel.e]

\* The adapter is dropped: its only field is dropped with it.
Drop ==
    /\ phase = "built"
    /\ phase' = "dropped"
    /\ released' = DropFn(inner, released)
    /\ inner' = Dropped
    /\ UNCHANGED <<input, hist, conversions>>

Next ==
    \/ OptionTranspose
    \/ ResultTranspose
    \/ OptionPoll
    \/ ResultPoll
    \/ Drop

Spec == Init /\ [][Next]_vars

\* The adapter awaited by an executor that does not cancel it: it is built,
\* then polled, never dropped.  The executor polls again as long as no poll
\* has returned Ready.
DriverKeepsPolling ==
    /\ \A i \in 1..Len(hist) : hist[i].ret.st # "Ready"
    /\ (OptionPoll \/ ResultPoll)
LiveNext ==
    \/ OptionTranspose
    \/ ResultTranspose
    \/ OptionPoll
    \/ ResultPoll
LiveSpec == Init /\ [][LiveNext]_vars /\ WF_vars(DriverKeepsPolling)

\* ---------------------------------------------------------------- properties
Idx == 1..Len(hist)

\* The number of the first poll that returned Ready, 0 when there is none.
FirstReady ==
    IF \E i \in Idx : hist[i].ret.st = "Ready"
    THEN CHOOSE i \in Idx : /\ hist[i].ret.st = "Ready"
                            /\ \A j \in 1..(i - 1) : hist[j].ret.st # "Ready"
    ELSE 0

\* Driving the computation x directly: into_future, then poll until Ready.
RECURSIVE DriveToReady(_, _)
DriveToReady(d, fuel) ==
    LET r == FuturePoll(d, "cx1", "Panic") IN
    IF r.ret.st = "Ready" \/ fuel = 0 THEN r.ret ELSE DriveToReady(r.fut, fuel - 1)
DirectDrive(x) == DriveToReady(into_future(x), MaxDelay + 1)

\* No poll was issued after a poll that returned Ready, and the wrapped
\* computation did not panic.
CorrectUsage ==
    /\ \A i \in Idx : hist[i].ret.st = "Ready" => i = Len(hist)
    /\ \A i \in Idx : hist[i].dret.st # "Panic"

\* C1: polling transpose(Some(x)) until it first returns Ready gives Pending
\* on every earlier poll and then Ready(Some(v)), v being the value that x
\* driven directly yields.
C1_SomeYieldsSomeOfDirect ==
    (input.kind = "Option" /\ input.tag = "Some" /\ FirstReady # 0) =>
        /\ hist[FirstReady].ret = ReadyWrap("Some", DirectDrive(input.x).t)
        /\ DirectDrive(input.x).st = "Ready"
        /\ \A j \in 1..(FirstReady - 1) : hist[j].ret = Pending
C1_Witness ==
    /\ input.kind = "Option" /\ input.tag = "Some" /\ input.x.delay = MaxDelay
    /\ FirstReady = MaxDelay + 1
    /\ hist[FirstReady].ret.wrap = "Some"

\* C2: polling transpose(Ok(x)) until it first returns Ready gives
\* Ready(Ok(v)), v being the value x driven directly yields, also when v is a
\* failure value of the inner computation: it is never moved into Err.
C2_OkYieldsOkOfDirect ==
    (input.kind = "Result" /\ input.tag = "Ok" /\ FirstReady # 0) =>
        /\ hist[FirstReady].ret = ReadyWrap("Ok", DirectDrive(input.x).t)
        /\ DirectDrive(input.x).st = "Ready"
        /\ \A j \in 1..(FirstReady - 1) : hist[j].ret = Pending
        /\ \A i \in Idx : hist[i].ret.wrap # "Err"
C2_Witness ==
    /\ input.kind = "Result" /\ input.tag = "Ok" /\ input.x.out.isErr
    /\ input.x.delay > 0
    /\ FirstReady # 0
    /\ hist[FirstReady].ret.wrap = "Ok" /\ hist[FirstReady].ret.t.isErr

\* The number of polls that handed the error value e to the caller.
Handed(e) == Cardinality({i \in Idx : hist[i].ret.st = "Ready" /\ hist[i].ret.e = e})

\* C3: the first poll of transpose(Err(e)) returns Ready(Err(e)) with the e
\* given at construction, no poll of the adapter polls a wrapped computation,
\* and once polled the adapter has handed e out exactly once, however often
\* it is polled afterwards.
C3_ErrHandedOnce ==
    (input.kind = "Result" /\ input.tag = "Err" /\ hist # <<>>) =>
        /\ hist[1].ret = ReadyErr(input.e)
        /\ \A i \in Idx : hist[i].dpolled = 0
        /\ Handed(input.e) = 1
        /\ \A i \in Idx : hist[i].ret.wrap = "Err" => hist[i].ret.e = input.e
C3_Witness ==
    /\ input.kind = "Result" /\ input.tag = "Err"
    /\ Len(hist) >= 3
    /\ hist[1].ret = ReadyErr(input.e)

\* C4: the first poll of transpose(None) returns Ready(None); the adapter
\* never returns Pending, converts nothing into a future and polls none.
C4_NoneReadyAtOnce ==
    (input.kind = "Option" /\ input.tag = "None" /\ phase # "input") =>
        /\ hist # <<>> => hist[1].ret = ReadyNone
        /\ \A i \in Idx : hist[i].ret.st # "Pending" /\ hist[i].dpolled = 0
        /\ conversions = 0
        /\ phase = "built" => inner = StoredNone
C4_Witness ==
    /\ input.kind = "Option" /\ input.tag = "None"
    /\ Len(hist) >= 1
    /\ hist[1].ret = ReadyNone

\* C5: a poll of an OptionalDeferred whose stored state is None leaves it
\* None and returns Ready(None), on the first poll and on every later one.
C5_AbsenceIdempotent ==
    [][(phase = "built" /\ input.kind = "Option" /\ inner.tag = "None"
        /\ hist' # hist) =>
          /\ inner' = StoredNone
          /\ hist'[Len(hist')].ret = ReadyNone
          /\ Len(hist') = Len(hist) + 1]_vars
C5_Witness ==
    /\ input.kind = "Option" /\ phase = "built" /\ inner.tag = "None"
    /\ Len(hist) = MaxPolls
    /\ \A i \in Idx : hist[i].ret = ReadyNone /\ hist[i].pre.tag = "None"

\* C6: a poll of either adapter returns Pending only when it polled D in that
\* call and D returned Pending; in the None and Err states no poll returns
\* Pending.
C6_PendingOnlyFromInner ==
    \A i \in Idx :
        /\ hist[i].ret.st = "Pending" =>
              /\ hist[i].dpolled = 1
              /\ hist[i].dret = InnerPending
              /\ hist[i].pre.tag \in {"Some", "Ok"}
        /\ hist[i].pre.tag \in {"None", "Err"} => hist[i].ret.st # "Pending"
C6_Witness ==
    /\ Len(hist) >= 2
    /\ hist[1].ret = Pending /\ hist[1].dret = InnerPending
    /\ hist[2].ret.st = "Ready"

\* C7: under correct usage no poll of either adapter panics: the Err branch
\* always finds the error slot filled, and every result is Pending or a
\* Ready Option/Result value.
C7_NoPanicUnderCorrectUsage ==
    CorrectUsage =>
        \A i \in Idx :
            /\ hist[i].ret.st \in {"Pending", "Ready"}
            /\ hist[i].pre.tag = "Err" => hist[i].pre.e.tag = "Some"
            /\ hist[i].ret.st = "Ready" =>
                  hist[i].ret.wrap \in (IF input.kind = "Option"
                                        THEN {"Some", "None"} ELSE {"Ok", "Err"})
C7_Witness ==
    /\ CorrectUsage
    /\ input.kind = "Result" /\ input.tag = "Err"
    /\ Len(hist) = 1 /\ hist[1].ret = ReadyErr(input.e)
    /\ inner = StoredErr(SlotNone)

\* C8 as stated: in every state reachable by any sequence of polls, no poll
\* of a FallibleDeferred ends in a panic raised by the adapter.
C8_NoAdapterPanicEver ==
    input.kind = "Result" =>
        \A i \in Idx : ~(hist[i].ret.st = "Panic" /\ hist[i].ret.by = "adapter")

\* C8 amended: FallibleDeferred has exactly one panic path, the unwrap of
\* the emptied error slot: a poll panics in the adapter exactly when the
\* stored state is Err(None), which only arises after the adapter has
\* returned Ready(Err(e)); every other poll returns Pending, Ready(Ok(..)) or
\* Ready(Err(e)), or unwinds with a panic of D itself.
C8_PanicOnlyOnEmptiedSlot ==
    input.kind = "Result" =>
        \A i \in Idx :
            /\ (hist[i].ret.st = "Panic" /\ hist[i].ret.by = "adapter")
                  <=> (hist[i].pre.tag = "Err" /\ hist[i].pre.e.tag = "None")
            /\ (hist[i].pre.tag = "Err" /\ hist[i].pre.e.tag = "None") =>
                  \E j \in 1..(i - 1) : hist[j].ret = ReadyErr(input.e)
            /\ hist[i].ret.st = "Panic" /\ hist[i].ret.by = "inner" =>
                  hist[i].dret = InnerPanic
            /\ hist[i].ret.st = "Ready" => hist[i].ret.wrap \in {"Ok", "Err"}
C8_Witness ==
    /\ input.kind = "Result" /\ input.tag = "Err"
    /\ Len(hist) >= 2
    /\ hist[1].ret = ReadyErr(input.e)
    /\ hist[2].ret = PanicBy("adapter")

\* C9: every poll of transpose(Err(e)) after the one that returned
\* Ready(Err(e)) finds the stored state Err(None) and ends in the adapter's
\* panic: it returns no value (not Err(e) again, no default, not Pending)
\* and leaves the slot empty.
C9_SecondPollPanics ==
    (input.kind = "Result" /\ input.tag = "Err") =>
        \A i \in Idx : i >= 2 =>
            /\ hist[i].pre = StoredErr(SlotNone)
            /\ hist[i].ret = PanicBy("adapter")
            /\ hist[i].post = StoredErr(SlotNone)
C9_Witness ==
    /\ input.kind = "Result" /\ input.tag = "Err"
    /\ Len(hist) = 2
    /\ hist[2].pre = StoredErr(SlotNone)
    /\ hist[2].ret.st = "Panic"

\* C10: right after transpose(), before any poll, the stored state is
\* Some(D)/Ok(D) with D the unpolled deferred form of x, converted exactly
\* once, or None, or Err(Some(e)); and transpose() is always possible.
C10_EagerConstruction ==
    /\ phase = "input" => (ENABLED OptionTranspose \/ ENABLED ResultTranspose)
    /\ (phase = "built" /\ hist = <<>>) =>
        /\ input.tag \in {"Some", "Ok"} =>
              /\ inner.tag = input.tag
              /\ inner.f = [remaining |-> input.x.delay, out |-> input.x.out,
                            done |-> FALSE, polls |-> 0, cx |-> NoCx]
              /\ inner.e = NoSlot
              /\ conversions = 1
        /\ input.tag = "None" => inner = StoredNone /\ conversions = 0
        /\ input.tag = "Err" =>
              inner = StoredErr(SlotSome(input.e)) /\ conversions = 0
C10_Witness ==
    /\ phase = "built" /\ hist = <<>>
    /\ input.tag = "Ok" /\ input.x.delay = MaxDelay
    /\ inner.tag = "Ok" /\ conversions = 1

\* C11: an adapter dropped before it has completed (before the first poll or
\* after Pending polls only) has released the wrapped computation D, or the
\* unconsumed error value, exactly once and holds nothing afterwards; an
\* error value already handed to the caller is not released again; and once
\* the adapter is dropped nothing is polled or released any more.
C11_DropReleasesOnce ==
    /\ [](phase = "dropped" =>
            /\ inner = Dropped
            /\ released.f = (IF input.tag \in {"Some", "Ok"} THEN 1 ELSE 0)
            /\ input.tag = "Err" => released.e + Handed(input.e) = 1
            /\ input.tag # "Err" => released.e = 0
            /\ FirstReady = 0 =>
                  released = [f |-> IF input.tag \in {"Some", "Ok"} THEN 1 ELSE 0,
                              e |-> IF input.tag = "Err" THEN 1 ELSE 0])
    /\ [](phase # "dropped" => released = [f |-> 0, e |-> 0])
    /\ [][phase = "dropped" =>
            (hist' = hist /\ released' = released /\ inner' = inner
             /\ phase' = "dropped")]_vars
C11_Witness ==
    /\ phase = "dropped"
    /\ input.tag = "Ok" /\ input.x.delay = MaxDelay
    /\ Len(hist) = MaxDelay /\ FirstReady = 0
    /\ hist[MaxDelay].ret = Pending
    /\ released.f = 1

\* C12: for an adapter built from Err(e) the stored state is Err(Some(e))
\* while it has never been polled and Err(None) once it has been; the slot is
\* emptied only by the poll that returns Ready(Err(e)) and is never refilled.
C12_ErrorSlotInvariant ==
    (input.kind = "Result" /\ input.tag = "Err" /\ phase = "built") =>
        /\ inner = (IF hist = <<>> THEN StoredErr(SlotSome(input.e))
                    ELSE StoredErr(SlotNone))
        /\ \A i \in Idx :
              /\ hist[i].pre = (IF i = 1 THEN StoredErr(SlotSome(input.e))
                                ELSE hist[i - 1].post)
              /\ hist[i].post = StoredErr(SlotNone)
              /\ hist[i].pre.e.tag = "Some" <=> hist[i].ret = ReadyErr(input.e)
C12_Witness ==
    /\ input.kind = "Result" /\ input.tag = "Err" /\ phase = "built"
    /\ Len(hist) >= 2
    /\ hist[1].pre = StoredErr(SlotSome(input.e))
    /\ hist[1].post = StoredErr(SlotNone)
    /\ inner = StoredErr(SlotNone)

\* Driving x directly: the number of the poll on which it returns Ready.
RECURSIVE PollsToReady(_, _)
PollsToReady(d, fuel) ==
    LET r == FuturePoll(d, "cx1", "Panic") IN
    IF r.ret.st = "Ready" \/ fuel = 0 THEN 1 ELSE 1 + PollsToReady(r.fut, fuel - 1)
DirectPolls(x) == PollsToReady(into_future(x), MaxDelay + 1)

\* D's result relabelled by the adapter: Pending as Pending, Ready(t) as
\* Ready(Some(t)) / Ready(Ok(t)); a panic of D unwinds through the adapter.
Relabelled(w, p) ==
    IF p.st = "Pending" THEN Pending
    ELSE IF p.st = "Ready"
    THEN [st |-> "Ready", wrap |-> w, t |-> p.t, e |-> NoE, by |-> "-"]
    ELSE PanicBy("inner")

\* C13: in the Some(D) and Ok(D) states every poll of the adapter polls D
\* exactly once, with the context it was given, and returns D's result
\* relabelled; so the adapter first returns Ready on the poll on which D
\* driven directly returns Ready.
C13_PassThrough ==
    /\ \A i \in Idx : hist[i].pre.tag \in {"Some", "Ok"} =>
          /\ hist[i].dpolled = 1
          /\ hist[i].dcx = hist[i].cx
          /\ hist[i].post.f.polls = hist[i].pre.f.polls + 1
          /\ hist[i].post.f.cx = hist[i].cx
          /\ hist[i].ret = Relabelled(hist[i].pre.tag, hist[i].dret)
    /\ input.tag \in {"Some", "Ok"} =>
          /\ FirstReady # 0 => FirstReady = DirectPolls(input.x)
          /\ Len(hist) >= DirectPolls(input.x) => FirstReady = DirectPolls(input.x)
C13_Witness ==
    /\ input.tag = "Some" /\ input.x.delay = MaxDelay
    /\ Len(hist) = MaxDelay + 1
    /\ FirstReady = MaxDelay + 1
    /\ hist[1].cx # hist[2].cx
    /\ hist[2].post.f.cx = hist[2].cx

\* C14: under an executor that keeps polling while no poll has returned
\* Ready, every built adapter eventually returns Ready; an adapter built from
\* None or Err does so on its first poll, without polling any D.
C14_EventuallyReady ==
    /\ (phase = "built") ~> (FirstReady # 0)
    /\ []((input.tag \in {"None", "Err"} /\ hist # <<>>) =>
            (hist[1].ret.st = "Ready" /\ hist[1].dpolled = 0))
C14_Witness ==
    /\ input.tag = "Ok" /\ input.x.delay = MaxDelay
    /\ FirstReady = MaxDelay + 1
    /\ \A j \in 1..MaxDelay : hist[j].ret = Pending

\* C15: no poll changes the stored variant: the adapter keeps Some(D) / Ok(D)
\* also after D has returned Ready, so a later poll is forwarded to the
\* completed D and the adapter returns whatever D then does; an adapter in
\* the Ok state never takes the Err branch and has no error slot to touch.
C15_VariantStable ==
    /\ phase = "built" => inner.tag = input.tag
    /\ \A i \in Idx :
          /\ hist[i].post.tag = hist[i].pre.tag
          /\ hist[i].pre.tag = input.tag
          /\ hist[i].pre.tag \in {"Some", "Ok"} =>
                /\ hist[i].dpolled = 1
                /\ hist[i].post.f.polls = i
                /\ hist[i].ret = Relabelled(hist[i].pre.tag, hist[i].dret)
                /\ hist[i].pre.e = NoSlot /\ hist[i].post.e = NoSlot
                /\ ~(hist[i].ret.st = "Panic" /\ hist[i].ret.by = "adapter")
                /\ hist[i].ret.wrap # "Err"
          /\ hist[i].pre.f.done => hist[i].post.f.done
C15_Witness ==
    /\ input.tag = "Ok" /\ phase = "built" /\ inner.tag = "Ok"
    /\ Len(hist) >= 3
    /\ hist[1].ret.st = "Ready"
    /\ hist[2].pre.f.done /\ hist[2].dpolled = 1 /\ hist[2].ret = PanicBy("inner")
    /\ hist[3].pre.f.done /\ hist[3].dpolled = 1 /\ hist[3].ret = Pending

====
